---- MODULE Spec2Model ----
(***************************************************************************)
(* Model of the PDF ingestion pipeline: TextCleaner (src/src/cleaner.py),  *)
(* PDFParser (src/src/parser.py) and the main loop (src/main.py).          *)
(*                                                                         *)
(* A text is a sequence of characters; a character is a one-character      *)
(* string, except the precomposed ligature glyphs, which are written by    *)
(* their code point ("U+FB01" is the single glyph for "fi").               *)
(***************************************************************************)
EXTENDS Integers, Sequences, FiniteSets, TLC

VARIABLES
    \* ---- TextCleaner.clean_text, one call at a time
    cin,        \* the argument `text` of the current clean_text call
    lig,        \* local `text` after _fix_ligatures
    art,        \* local `text` after _remove_artifacts
    cout,       \* the value returned by the call
    cpc,        \* position inside clean_text
    calls,      \* completed calls, oldest first: [arg, res]
    \* ---- the caller of PDFParser.parse (main, or any consumer)
    pdf_files,  \* the files the caller extracts, in its order
    idx,        \* index in pdf_files of the file being extracted (0: none yet)
    mpc,        \* position of the caller
    results,    \* per finished extraction: [file, docs, error]
    \* ---- the generator PDFParser.parse(pdf_files[idx])
    gpc,        \* position inside parse
    file_hash,  \* local file_hash
    pos,        \* pages taken from enumerate(doc) so far
    emitted,    \* Documents yielded by this generator, in order
    error,      \* the exception parse raised, or NoError
    io,         \* handle events of this extraction, in order
    handles     \* handles open now: <<kind, index of the file>>

cleanerVars == <<cin, lig, art, cout, cpc, calls>>

callerVars == <<pdf_files, idx, mpc, results>>

parseVars == <<gpc, file_hash, pos, emitted, error, io, handles>>

vars == <<cin, lig, art, cout, cpc, calls,
          pdf_files, idx, mpc, results,
          gpc, file_hash, pos, emitted, error, io, handles>>

----------------------------------------------------------------------------
(* Bounds of the model *)

\* lines per generated raw text
MaxLines == 3
\* clean_text calls chained on one text (each call is fed the previous result)
MaxCalls == 2
\* pages per document
MaxPages == 3
\* files found by main in the data directory
MaxFiles == 2

----------------------------------------------------------------------------
(* Characters *)

NL == "\n"

\* str.isspace / the regex class \s (ASCII part)
Whitespace == {" ", "\t", "\n", "\r", "\f"}

\* the regex class \d (ASCII part)
Digit == {"0", "1", "2", "3", "4", "5", "6", "7", "8", "9"}

UpperCase == <<"A", "B", "C", "D", "E", "F", "G", "H", "I", "J", "K", "L", "M",
               "N", "O", "P", "Q", "R", "S", "T", "U", "V", "W", "X", "Y", "Z">>

LowerCase == <<"a", "b", "c", "d", "e", "f", "g", "h", "i", "j", "k", "l", "m",
               "n", "o", "p", "q", "r", "s", "t", "u", "v", "w", "x", "y", "z">>

\* str.lower on one character
LowerChar(c) ==
    IF \E i \in 1..Len(UpperCase) : UpperCase[i] = c
    THEN LowerCase[CHOOSE i \in 1..Len(UpperCase) : UpperCase[i] = c]
    ELSE c

\* str.lower
lower(s) == [i \in 1..Len(s) |-> LowerChar(s[i])]

----------------------------------------------------------------------------
(* A small backtracking regular-expression matcher, enough for the four    *)
(* patterns of cleaner.py.  A pattern is a sequence of items.              *)

\* one character of the class
One(cls) == [kind |-> "chr", cls |-> cls, min |-> 1, many |-> FALSE]
\* cls+
Plus(cls) == [kind |-> "chr", cls |-> cls, min |-> 1, many |-> TRUE]
\* cls*
Star(cls) == [kind |-> "chr", cls |-> cls, min |-> 0, many |-> TRUE]
\* ^
Bos == [kind |-> "bos", cls |-> {}, min |-> 0, many |-> FALSE]
\* $
Eos == [kind |-> "eos", cls |-> {}, min |-> 0, many |-> FALSE]

\* membership of a character in a class, under re.IGNORECASE when ic
InClass(c, cls, ic) ==
    IF ic THEN \E x \in cls : LowerChar(x) = LowerChar(c) ELSE c \in cls

RECURSIVE RunLen(_, _, _, _)
\* how many characters of s, from position j on, belong to cls
RunLen(cls, ic, s, j) ==
    IF j > Len(s) \/ ~InClass(s[j], cls, ic) THEN 0
    ELSE 1 + RunLen(cls, ic, s, j + 1)

RECURSIVE MatchFrom(_, _, _, _, _)
RECURSIVE TryCounts(_, _, _, _, _, _)

\* greedy repetition with backtracking: n characters for item k, then n-1, ...
TryCounts(pat, k, ic, s, j, n) ==
    IF n < pat[k].min THEN 0
    ELSE LET r == MatchFrom(pat, k + 1, ic, s, j + n)
         IN  IF r # 0 THEN r ELSE TryCounts(pat, k, ic, s, j, n - 1)

\* the position just after the match of items k.. of pat at position j of s,
\* or 0 when there is no match
MatchFrom(pat, k, ic, s, j) ==
    IF k > Len(pat) THEN j
    ELSE IF pat[k].kind = "bos"
         THEN IF j = 1 THEN MatchFrom(pat, k + 1, ic, s, j) ELSE 0
    ELSE IF pat[k].kind = "eos"
         THEN IF j = Len(s) + 1 \/ (j = Len(s) /\ s[j] = NL)
              THEN MatchFrom(pat, k + 1, ic, s, j) ELSE 0
    ELSE LET avail == RunLen(pat[k].cls, ic, s, j)
             n == IF pat[k].many THEN avail ELSE IF avail > 0 THEN 1 ELSE 0
         IN  TryCounts(pat, k, ic, s, j, n)

\* re.match(pat, s, flags) is not None
re_match(pat, s, ic) == MatchFrom(pat, 1, ic, s, 1) # 0

RECURSIVE re_sub_from(_, _, _, _)
re_sub_from(pat, repl, s, i) ==
    IF i > Len(s) THEN <<>>
    ELSE LET e == MatchFrom(pat, 1, FALSE, s, i)
         IN  IF e > i THEN repl \o re_sub_from(pat, repl, s, e)
             ELSE <<s[i]>> \o re_sub_from(pat, repl, s, i + 1)

\* re.sub(pat, repl, s): leftmost non-overlapping matches replaced
re_sub(pat, repl, s) == re_sub_from(pat, repl, s, 1)

----------------------------------------------------------------------------
(* str methods used by the cleaner *)

RECURSIVE lstrip(_)
lstrip(s) ==
    IF s # <<>> /\ Head(s) \in Whitespace THEN lstrip(Tail(s)) ELSE s

RECURSIVE rstrip(_)
rstrip(s) ==
    IF s # <<>> /\ s[Len(s)] \in Whitespace
    THEN rstrip(SubSeq(s, 1, Len(s) - 1)) ELSE s

\* str.strip()
strip(s) == rstrip(lstrip(s))

RECURSIVE split(_, _)
\* str.split(sep) for a one-character separator
split(s, sep) ==
    IF \E i \in 1..Len(s) : s[i] = sep
    THEN LET p == CHOOSE i \in 1..Len(s) :
                      s[i] = sep /\ \A h \in 1..(i - 1) : s[h] # sep
         IN  <<SubSeq(s, 1, p - 1)>> \o split(SubSeq(s, p + 1, Len(s)), sep)
    ELSE <<s>>

RECURSIVE join(_, _)
\* sep.join(parts)
join(sep, parts) ==
    IF parts = <<>> THEN <<>>
    ELSE IF Len(parts) = 1 THEN parts[1]
    ELSE parts[1] \o <<sep>> \o join(sep, Tail(parts))

RECURSIVE replace(_, _, _)
\* str.replace(old, new) for a one-character old
replace(s, old, new) ==
    IF s = <<>> THEN <<>>
    ELSE (IF Head(s) = old THEN new ELSE <<Head(s)>>) \o replace(Tail(s), old, new)

----------------------------------------------------------------------------
(* TextCleaner *)

\* the ligature table of _fix_ligatures, in dict order
ligatures ==
    << <<"U+FB01", <<"f", "i">> >>,
       <<"U+FB02", <<"f", "l">> >>,
       <<"U+FB00", <<"f", "f">> >>,
       <<"U+FB03", <<"f", "f", "i">> >>,
       <<"U+FB04", <<"f", "f", "l">> >>,
       <<"U+FB05", <<"f", "t">> >>,
       <<"U+FB06", <<"s", "t">> >> >>

RECURSIVE fix_ligatures_from(_, _)
fix_ligatures_from(text, k) ==
    IF k > Len(ligatures) THEN text
    ELSE fix_ligatures_from(replace(text, ligatures[k][1], ligatures[k][2]), k + 1)

_fix_ligatures(text) == fix_ligatures_from(text, 1)

\* r'^\d+$'
PageNumberPattern == <<Bos, Plus(Digit), Eos>>

\* r'^Page \d+ of \d+$'
PageOfPattern ==
    <<Bos, One({"P"}), One({"a"}), One({"g"}), One({"e"}), One({" "}),
      Plus(Digit), One({" "}), One({"o"}), One({"f"}), One({" "}),
      Plus(Digit), Eos>>

\* r"-\n\s*"
HyphenBreakPattern == <<One({"-"}), One({NL}), Star(Whitespace)>>

\* r"\s+"
SpaceRunPattern == <<Plus(Whitespace)>>

\* the three `continue` tests of the loop of _remove_artifacts
SkipLine(line) ==
    LET stripped == strip(line)
    IN  \/ stripped = <<>>
        \/ re_match(PageNumberPattern, stripped, FALSE)
        \/ re_match(PageOfPattern, stripped, TRUE)

\* variant: the trimmed line is appended
KeptLine_stripped(line) == strip(line)

\* what the loop appends to cleaned_lines for a line it keeps
KeptLine(line) == line

RECURSIVE cleaned_lines(_)
cleaned_lines(lines) ==
    IF lines = <<>> THEN <<>>
    ELSE (IF SkipLine(Head(lines)) THEN <<>> ELSE <<KeptLine(Head(lines))>>)
         \o cleaned_lines(Tail(lines))

_remove_artifacts(text) == join(NL, cleaned_lines(split(text, NL)))

\* variant: the pattern is r"-\n", the whitespace after the break stays
FixHyphenation_break_only(text) == re_sub(<<One({"-"}), One({NL})>>, <<>>, text)

\* the hyphenation fix, first statement of _normalize_whitespace
FixHyphenation(text) == re_sub(HyphenBreakPattern, <<>>, text)

_normalize_whitespace(text) ==
    strip(re_sub(SpaceRunPattern, <<" ">>, FixHyphenation(text)))

clean_text(text) ==
    IF text = <<>> THEN <<>>
    ELSE _normalize_whitespace(_remove_artifacts(_fix_ligatures(text)))

----------------------------------------------------------------------------
(* hashlib.sha256, reduced to 16 bits: the model keeps what the program    *)
(* relies on, a deterministic digest of a byte sequence, hex-encoded.      *)

HexDigits == <<"0", "1", "2", "3", "4", "5", "6", "7", "8", "9",
               "a", "b", "c", "d", "e", "f">>

\* the bytes of a block absorbed into the running state h
sha256_update(h, block) ==
    LET RECURSIVE absorb(_, _)
        absorb(x, k) == IF k > Len(block) THEN x
                        ELSE absorb(((x * 33) + block[k] + 1) % 65536, k + 1)
    IN  absorb(h, 1)

\* hashlib.sha256(): the initial state
sha256_new == 5381

\* .hexdigest()
hexdigest(h) ==
    <<HexDigits[((h \div 4096) % 16) + 1], HexDigits[((h \div 256) % 16) + 1],
      HexDigits[((h \div 16) % 16) + 1], HexDigits[(h % 16) + 1]>>

\* ord() of a character (ASCII)
ord(c) ==
    IF \E k \in 1..10 : HexDigits[k] = c
    THEN 47 + (CHOOSE k \in 1..10 : HexDigits[k] = c)
    ELSE IF \E k \in 1..26 : LowerCase[k] = c
    THEN 96 + (CHOOSE k \in 1..26 : LowerCase[k] = c)
    ELSE IF \E k \in 1..26 : UpperCase[k] = c
    THEN 64 + (CHOOSE k \in 1..26 : UpperCase[k] = c)
    ELSE IF c = "_" THEN 95
    ELSE IF c = "." THEN 46
    ELSE 47

\* str.encode() of an ASCII string
encode(str) == [i \in 1..Len(str) |-> ord(str[i])]

RECURSIVE decimal(_)
\* the decimal digits of a natural number, as the f-string formats it
decimal(n) ==
    IF n < 10 THEN <<HexDigits[n + 1]>>
    ELSE decimal(n \div 10) \o <<HexDigits[(n % 10) + 1]>>

\* bytes read by one f.read(4096)
ChunkSize == 4096

RECURSIVE hash_chunks(_, _)
\* the loop of _calculate_file_hash: update per chunk until read returns b""
hash_chunks(h, rest) ==
    IF rest = <<>> THEN h
    ELSE LET n == IF Len(rest) < ChunkSize THEN Len(rest) ELSE ChunkSize
         IN  hash_chunks(sha256_update(h, SubSeq(rest, 1, n)),
                         SubSeq(rest, n + 1, Len(rest)))

_calculate_file_hash(bytes) == hexdigest(hash_chunks(sha256_new, bytes))

----------------------------------------------------------------------------
(* Files and the document library (fitz).  What fitz makes of a file is a  *)
(* function of the file's bytes: the first byte is the header (1 for a     *)
(* well-formed document), every further byte encodes one page.             *)

PageBody == <<"B", "o", "d", "y">>
PageNumberOnly == <<" ", "5", "\t">>
PageHyphen == <<"a", "-", "\n", " ", "b">>

PageBytes == 0..3

\* fitz.open(file_path) succeeds
Openable(bytes) == bytes # <<>> /\ bytes[1] = 1

\* len(doc)
PageCount(bytes) == Len(bytes) - 1

\* page.get_text() raises for the page with 0-based index i
PageFaults(bytes, i) == bytes[i + 2] = 0

\* the text of the page a byte encodes
PageTexts == [b \in PageBytes \ {0} |->
                 CASE b = 1 -> PageBody
                   [] b = 2 -> PageNumberOnly
                   [] OTHER -> PageHyphen]

\* page.get_text() of the page with 0-based index i
get_text(bytes, i) == PageTexts[bytes[i + 2]]

\* Path.suffix of a file name
suffix(name) ==
    LET dots == {i \in 1..Len(name) : name[i] = "."}
    IN  IF dots = {} THEN <<>>
        ELSE LET last == CHOOSE i \in dots : \A h \in dots : h <= i
             IN  IF last = 1 \/ last = Len(name) THEN <<>>
                 ELSE SubSeq(name, last, Len(name))

DotPdf == <<".", "p", "d", "f">>

\* data_dir.glob("*.pdf") matches the name
GlobPdf(name) ==
    Len(name) >= 4 /\ SubSeq(name, Len(name) - 3, Len(name)) = DotPdf

NameA == <<"a", ".", "p", "d", "f">>
NameB == <<"b", ".", "P", "D", "F">>
NameC == <<"c", ".", "t", "x", "t">>
NameD == <<"d">>
NameHidden == <<".", "p", "d", "f">>
NameE == <<"e", ".", "p", "d", "f">>

Names == {NameA, NameB, NameC, NameD, NameHidden}

DataDir == <<"/", "d", "a", "t", "a", "/">>

\* the byte contents a file may have
Contents ==
    {<<>>} \cup
    {<<hd>> \o pg : hd \in {1, 9},
                    pg \in UNION {[1..n -> PageBytes] : n \in 0..MaxPages}}

\* a path: its name, whether it exists, whether it can be opened for
\* reading, and the bytes of the file
Paths ==
    {[name |-> n, exists |-> FALSE, readable |-> FALSE, bytes |-> <<>>] : n \in Names}
    \cup
    {[name |-> n, exists |-> TRUE, readable |-> r, bytes |-> b] :
        n \in Names, r \in BOOLEAN, b \in Contents}

----------------------------------------------------------------------------
(* PDFParser.parse *)

NoError == [type |-> "none", msg |-> "", cause |-> "none"]

FileNotFound == [type |-> "FileNotFoundError", msg |-> "File not found", cause |-> "none"]

NotAPdf == [type |-> "ValueError", msg |-> "File is not a PDF", cause |-> "none"]

\* `raise ValueError(f"Failed to open PDF {file_path}: {e}")` inside
\* `except Exception as e`: the message holds e, and e is the context
FailedToOpen(e) == [type |-> "ValueError", msg |-> "Failed to open PDF", cause |-> e]

\* what open(file_path, "rb") raises for a file that cannot be read
ReadDenied == [type |-> "PermissionError", msg |-> "Permission denied", cause |-> "none"]

\* what page.get_text() raises for a malformed page
PageFault == [type |-> "RuntimeError", msg |-> "page fault", cause |-> "none"]

file == pdf_files[idx]

\* self.cleaner.clean_text applied to each page text, tabulated
CleanedTexts == [b \in DOMAIN PageTexts |-> clean_text(PageTexts[b])]

\* `cleaned_text = self.cleaner.clean_text(raw_text)` for the page with
\* 0-based index i
cleaned(bytes, i) == CleanedTexts[bytes[i + 2]]

\* variant: the suffix is compared as it is written
IsPdf_case_sensitive(name) == suffix(name) = DotPdf

\* file_path.suffix.lower() == ".pdf"
IsPdf(name) == lower(suffix(name)) = DotPdf

\* variant: the 0-based index is stored
PageNumber_zero_based(page_num) == page_num

\* "page_number": page_num + 1
PageNumber(page_num) == page_num + 1

\* variant: no page is skipped
SkipPage_never(cleaned_text) == FALSE

\* `if not cleaned_text: continue`
SkipPage(cleaned_text) == cleaned_text = <<>>

\* variant: the key is made of the file name
IdKey_by_name(f, hash, page_num) == f.name \o <<"_">> \o decimal(page_num)

\* the key digested into "id": f"{file_hash}_{page_num}"
IdKey(f, hash, page_num) == hash \o <<"_">> \o decimal(page_num)

\* hashlib.sha256(f"{file_hash}_{page_num}".encode()).hexdigest()
PageId(f, hash, page_num) ==
    hexdigest(sha256_update(sha256_new, encode(IdKey(f, hash, page_num))))

\* Document(content=cleaned_text, metadata=metadata)
Document(f, hash, page_num, cleaned_text) ==
    [content |-> cleaned_text,
     filename |-> f.name,
     file_path |-> DataDir \o f.name,
     page_number |-> PageNumber(page_num),
     file_hash |-> hash,
     id |-> PageId(f, hash, page_num)]

\* variant: the file is opened without a with block and never closed
AfterWith_leak(hs, h) == hs

\* the handles open after the `with open(...)` block of _calculate_file_hash
\* is left
AfterWith(hs, h) == hs \ {h}

\* the handles open when the generator stops without reaching doc.close()
\* (an exception in the loop, or GeneratorExit at the yield)
AfterUnwind(hs, h) == hs

Raise(e) ==
    /\ gpc' = "raised"
    /\ error' = e

\* `if not file_path.exists(): raise FileNotFoundError(...)`
ParseExists ==
    /\ gpc = "exists"
    /\ IF ~file.exists
       THEN Raise(FileNotFound)
       ELSE gpc' = "suffix" /\ UNCHANGED error
    /\ UNCHANGED <<file_hash, pos, emitted, io, handles>>
    /\ UNCHANGED <<cleanerVars, callerVars>>

\* `if file_path.suffix.lower() != ".pdf": raise ValueError(...)`
ParseSuffix ==
    /\ gpc = "suffix"
    /\ IF ~IsPdf(file.name)
       THEN Raise(NotAPdf)
       ELSE gpc' = "hash_open" /\ UNCHANGED error
    /\ UNCHANGED <<file_hash, pos, emitted, io, handles>>
    /\ UNCHANGED <<cleanerVars, callerVars>>

\* _calculate_file_hash: `with open(file_path, "rb") as f:`
HashOpen ==
    /\ gpc = "hash_open"
    /\ IF ~file.readable
       THEN Raise(ReadDenied) /\ UNCHANGED <<io, handles>>
       ELSE /\ gpc' = "hash_read"
            /\ io' = Append(io, "open_file")
            /\ handles' = handles \cup {<<"file", idx>>}
            /\ UNCHANGED error
    /\ UNCHANGED <<file_hash, pos, emitted>>
    /\ UNCHANGED <<cleanerVars, callerVars>>

\* _calculate_file_hash: the read loop, the end of the with block, the return
HashRead ==
    /\ gpc = "hash_read"
    /\ file_hash' = _calculate_file_hash(file.bytes)
    /\ io' = Append(io, "close_file")
    /\ handles' = AfterWith(handles, <<"file", idx>>)
    /\ gpc' = "open"
    /\ UNCHANGED <<pos, emitted, error>>
    /\ UNCHANGED <<cleanerVars, callerVars>>

\* `try: doc = fitz.open(file_path) except Exception as e: raise ValueError`
ParseOpen ==
    /\ gpc = "open"
    /\ IF Openable(file.bytes)
       THEN /\ gpc' = "loop"
            /\ io' = Append(io, "open_doc")
            /\ handles' = handles \cup {<<"doc", idx>>}
            /\ UNCHANGED error
       ELSE /\ Raise(FailedToOpen("FileDataError"))
            /\ io' = Append(io, "open_doc_failed")
            /\ UNCHANGED handles
    /\ UNCHANGED <<file_hash, pos, emitted>>
    /\ UNCHANGED <<cleanerVars, callerVars>>

\* one iteration of `for page_num, page in enumerate(doc)`, up to its
\* `continue`, its `yield` or the exception of get_text
ParsePage ==
    /\ gpc = "loop"
    /\ pos < PageCount(file.bytes)
    /\ IF PageFaults(file.bytes, pos)
       THEN /\ Raise(PageFault)
            /\ handles' = AfterUnwind(handles, <<"doc", idx>>)
            /\ UNCHANGED <<pos, emitted>>
       ELSE LET cleaned_text == cleaned(file.bytes, pos)
            IN  /\ pos' = pos + 1
                /\ IF SkipPage(cleaned_text)
                   THEN UNCHANGED <<gpc, emitted>>
                   ELSE /\ gpc' = "yield"
                        /\ emitted' = Append(emitted,
                               Document(file, file_hash, pos, cleaned_text))
                /\ UNCHANGED <<error, handles>>
    /\ UNCHANGED <<file_hash, io>>
    /\ UNCHANGED <<cleanerVars, callerVars>>

\* the loop is exhausted: `doc.close()`, then the generator returns
ParseEnd ==
    /\ gpc = "loop"
    /\ pos = PageCount(file.bytes)
    /\ io' = Append(io, "close_doc")
    /\ handles' = handles \ {<<"doc", idx>>}
    /\ gpc' = "returned"
    /\ UNCHANGED <<file_hash, pos, emitted, error>>
    /\ UNCHANGED <<cleanerVars, callerVars>>

ParseStep ==
    \/ ParseExists
    \/ ParseSuffix
    \/ HashOpen
    \/ HashRead
    \/ ParseOpen
    \/ ParsePage
    \/ ParseEnd

\* the state of a generator object just created by parser.parse(path)
NewGenerator ==
    /\ gpc' = "created"
    /\ file_hash' = <<>>
    /\ pos' = 0
    /\ emitted' = <<>>
    /\ error' = NoError
    /\ io' = <<>>

\* next(generator): the body runs from its start, or on from its yield
Resume ==
    /\ gpc \in {"created", "yield"}
    /\ gpc' = IF gpc = "created" THEN "exists" ELSE "loop"

CleanerIdle ==
    /\ cin = <<>>
    /\ lig = <<>>
    /\ art = <<>>
    /\ cout = <<>>
    /\ cpc = "idle"
    /\ calls = <<>>

ParserIdle ==
    /\ pdf_files = <<>>
    /\ idx = 0
    /\ mpc = "idle"
    /\ results = <<>>
    /\ gpc = "none"
    /\ file_hash = <<>>
    /\ pos = 0
    /\ emitted = <<>>
    /\ error = NoError
    /\ io = <<>>
    /\ handles = {}

----------------------------------------------------------------------------
(* A consumer of one extraction: it pulls Documents, and may stop pulling  *)
(* at any point.                                                           *)

Init ==
    /\ CleanerIdle
    /\ pdf_files \in {<<p>> : p \in Paths}
    /\ idx = 1
    /\ mpc = "consume"
    /\ results = <<>>
    /\ gpc = "created"
    /\ file_hash = <<>>
    /\ pos = 0
    /\ emitted = <<>>
    /\ error = NoError
    /\ io = <<>>
    /\ handles = {}

\* the consumer asks for the next Document
ConsumerPull ==
    /\ mpc = "consume"
    /\ Resume
    /\ UNCHANGED <<file_hash, pos, emitted, error, io, handles>>
    /\ UNCHANGED <<cleanerVars, callerVars>>

\* the consumer stops pulling and closes the generator: GeneratorExit is
\* raised at the yield and leaves parse
ConsumerAbandon ==
    /\ mpc = "consume"
    /\ gpc \in {"created", "yield"}
    /\ gpc' = "closed"
    /\ handles' = AfterUnwind(handles, <<"doc", idx>>)
    /\ mpc' = "finished"
    /\ UNCHANGED <<file_hash, pos, emitted, error, io>>
    /\ UNCHANGED <<cleanerVars, pdf_files, idx, results>>

\* the consumer sees the end of the sequence, or the exception
ConsumerDone ==
    /\ mpc = "consume"
    /\ gpc \in {"returned", "raised"}
    /\ mpc' = "finished"
    /\ results' = Append(results, [file |-> idx, docs |-> emitted, error |-> error])
    /\ UNCHANGED <<pdf_files, idx>>
    /\ UNCHANGED <<cleanerVars, parseVars>>

Next ==
    \/ ParseStep
    \/ ConsumerPull
    \/ ConsumerAbandon
    \/ ConsumerDone

Spec == Init /\ [][Next]_vars

----------------------------------------------------------------------------
(* main: the loop over the PDF files of the data directory *)

\* byte contents of the files of the data directory
DirContents ==
    { <<1, 1, 2, 3>>,      \* three pages, the second holds a page number only
      <<1, 3, 0, 1>>,      \* the second page cannot be read
      <<9, 1>>,            \* not a well-formed document
      <<1, 2>> }           \* a single page, empty once cleaned

\* names of directory entries that "*.pdf" matches
DirNames == {n \in {NameA, NameE, NameHidden, NameB, NameC} : GlobPdf(n)}

\* the entries: regular files, unreadable files, and dangling links
DirEntries ==
    {[name |-> n, exists |-> TRUE, readable |-> TRUE, bytes |-> b] :
        n \in DirNames, b \in DirContents}
    \cup
    {[name |-> n, exists |-> TRUE, readable |-> FALSE, bytes |-> <<1, 1>>] : n \in DirNames}
    \cup
    {[name |-> n, exists |-> FALSE, readable |-> FALSE, bytes |-> <<>>] : n \in DirNames}

\* list(data_dir.glob("*.pdf")): entries with different names, in any order
GlobResults ==
    {fs \in UNION {[1..n -> DirEntries] : n \in 0..MaxFiles} :
        \A i, j \in 1..Len(fs) : i # j => fs[i].name # fs[j].name}

MainInit ==
    /\ CleanerIdle
    /\ pdf_files \in GlobResults
    /\ idx = 0
    /\ mpc = "scan"
    /\ results = <<>>
    /\ gpc = "none"
    /\ file_hash = <<>>
    /\ pos = 0
    /\ emitted = <<>>
    /\ error = NoError
    /\ io = <<>>
    /\ handles = {}

\* `if not pdf_files: print("No PDF files found."); return`
\* (a missing data directory ends main the same way, before the scan)
MainScan ==
    /\ mpc = "scan"
    /\ mpc' = IF pdf_files = <<>> THEN "done" ELSE "for"
    /\ UNCHANGED <<pdf_files, idx, results>>
    /\ UNCHANGED <<cleanerVars, parseVars>>

\* `for pdf_file in pdf_files:` takes the next file and calls parser.parse
MainFor ==
    /\ mpc = "for"
    /\ idx < Len(pdf_files)
    /\ idx' = idx + 1
    /\ mpc' = "iterate"
    /\ NewGenerator
    /\ UNCHANGED <<pdf_files, results, handles>>
    /\ UNCHANGED cleanerVars

\* the list is exhausted: main returns
MainReturn ==
    /\ mpc = "for"
    /\ idx = Len(pdf_files)
    /\ mpc' = "done"
    /\ UNCHANGED <<pdf_files, idx, results>>
    /\ UNCHANGED <<cleanerVars, parseVars>>

\* `for document in parser.parse(pdf_file):` asks for the next Document
\* (the body only prints the one it was given)
MainPull ==
    /\ mpc = "iterate"
    /\ Resume
    /\ UNCHANGED <<file_hash, pos, emitted, error, io, handles>>
    /\ UNCHANGED <<cleanerVars, callerVars>>

\* variant: the exception leaves main
AfterExcept_abort == "done"

\* where main goes on after the `except Exception` handler has printed
AfterExcept == "for"

\* the inner loop ends: by StopIteration, or by an exception that the
\* `except Exception as e` clause catches
MainFileDone ==
    /\ mpc = "iterate"
    /\ gpc \in {"returned", "raised"}
    /\ results' = Append(results, [file |-> idx, docs |-> emitted, error |-> error])
    /\ mpc' = IF gpc = "raised" THEN AfterExcept ELSE "for"
    /\ gpc' = "none"
    /\ UNCHANGED <<pdf_files, idx>>
    /\ UNCHANGED <<file_hash, pos, emitted, error, io, handles>>
    /\ UNCHANGED cleanerVars

MainNext ==
    \/ ParseStep
    \/ MainScan
    \/ MainFor
    \/ MainReturn
    \/ MainPull
    \/ MainFileDone

MainSpec == MainInit /\ [][MainNext]_vars

\* main is one sequential thread: it takes its next step whenever it has one
MainLiveSpec == MainSpec /\ WF_vars(MainNext)

----------------------------------------------------------------------------
(* Inputs of the cleaner: raw texts of at most MaxLines lines drawn from a  *)
(* pool, and the example texts of the documentation.                        *)

LinePool ==
    { <<>>,
      <<" ", "5", "\t">>,
      <<"p", "A", "G", "E", " ", "2", " ", "o", "f", " ", "1", "0">>,
      <<"P", "a", "g", "e", " ", " ", "1", " ", "o", "f", " ", "2">>,
      <<"B", "o", "d", "y">>,
      <<"a", "-">>,
      <<" ", "b">>,
      <<"o", "U+FB01", "c", "e">>,
      <<"1", "2", "a">> }

ExIntro == <<"I", "n", "t", "r", "o", "\n", "5", "\n",
             "P", "a", "g", "e", " ", "2", " ", "o", "f", " ", "1", "0", "\n",
             "B", "o", "d", "y">>

ExHyphen == <<"c", "o", "m", "m", "u", "n", "i", "-", "\n",
              "c", "a", "t", "i", "o", "n">>

ExLigature == <<"o", "f", "U+FB01", "c", "e">>

ExampleTexts == {ExIntro, ExHyphen, ExLigature}

RawTexts ==
    {join(NL, ls) : ls \in UNION {[1..n -> LinePool] : n \in 1..MaxLines}}
    \cup ExampleTexts

----------------------------------------------------------------------------
(* clean_text as a process: one action per statement *)

CleanInit ==
    /\ cin \in RawTexts
    /\ lig = <<>>
    /\ art = <<>>
    /\ cout = <<>>
    /\ cpc = "call"
    /\ calls = <<>>
    /\ ParserIdle

\* `if not text: return ""`
CleanEmpty ==
    /\ cpc = "call"
    /\ cin = <<>>
    /\ cout' = <<>>
    /\ cpc' = "return"
    /\ calls' = Append(calls, [arg |-> cin, res |-> <<>>])
    /\ UNCHANGED <<cin, lig, art>>
    /\ UNCHANGED <<callerVars, parseVars>>

\* `text = self._fix_ligatures(text)`
CleanLigatures ==
    /\ cpc = "call"
    /\ cin # <<>>
    /\ lig' = _fix_ligatures(cin)
    /\ cpc' = "artifacts"
    /\ UNCHANGED <<cin, art, cout, calls>>
    /\ UNCHANGED <<callerVars, parseVars>>

\* `text = self._remove_artifacts(text)`
CleanArtifacts ==
    /\ cpc = "artifacts"
    /\ art' = _remove_artifacts(lig)
    /\ cpc' = "whitespace"
    /\ UNCHANGED <<cin, lig, cout, calls>>
    /\ UNCHANGED <<callerVars, parseVars>>

\* `text = self._normalize_whitespace(text); return text`
CleanWhitespace ==
    /\ cpc = "whitespace"
    /\ cout' = _normalize_whitespace(art)
    /\ cpc' = "return"
    /\ calls' = Append(calls, [arg |-> cin, res |-> _normalize_whitespace(art)])
    /\ UNCHANGED <<cin, lig, art>>
    /\ UNCHANGED <<callerVars, parseVars>>

\* the caller cleans the returned text again
CleanAgain ==
    /\ cpc = "return"
    /\ Len(calls) < MaxCalls
    /\ cin' = cout
    /\ lig' = <<>>
    /\ art' = <<>>
    /\ cout' = <<>>
    /\ cpc' = "call"
    /\ UNCHANGED calls
    /\ UNCHANGED <<callerVars, parseVars>>

CleanNext ==
    \/ CleanEmpty
    \/ CleanLigatures
    \/ CleanArtifacts
    \/ CleanWhitespace
    \/ CleanAgain

CleanSpec == CleanInit /\ [][CleanNext]_vars

----------------------------------------------------------------------------
(* Vocabulary of the properties of the cleaner, stated on positions of the  *)
(* text rather than through the regular-expression matcher.                 *)

NonWs(t) == SelectSeq(t, LAMBDA c : c \notin Whitespace)

\* the text without the characters at the positions in D
Without(t, D) ==
    LET keep == {i \in 1..Len(t) : i \notin D}
        RECURSIVE pick(_)
        pick(i) == IF i > Len(t) THEN <<>>
                   ELSE (IF i \in keep THEN <<t[i]>> ELSE <<>>) \o pick(i + 1)
    IN  pick(1)

Trimmed(line) ==
    LET nz == {i \in 1..Len(line) : line[i] \notin Whitespace}
    IN  IF nz = {} THEN <<>>
        ELSE SubSeq(line, CHOOSE i \in nz : \A h \in nz : i <= h,
                          CHOOSE i \in nz : \A h \in nz : h <= i)

AllDigits(t) == t # <<>> /\ \A i \in 1..Len(t) : t[i] \in Digit

\* "Page <int> of <int>", whatever the case of the letters
IsPageOf(t) ==
    \E a \in 6..Len(t) :
        /\ lower(SubSeq(t, 1, 5)) = <<"p", "a", "g", "e", " ">>
        /\ AllDigits(SubSeq(t, 6, a))
        /\ lower(SubSeq(t, a + 1, a + 4)) = <<" ", "o", "f", " ">>
        /\ AllDigits(SubSeq(t, a + 5, Len(t)))

IsArtifactLine(line) ==
    \/ Trimmed(line) = <<>>
    \/ AllDigits(Trimmed(line))
    \/ IsPageOf(Trimmed(line))

SurvivingLines(text) ==
    SelectSeq(split(text, NL), LAMBDA l : ~IsArtifactLine(l))

\* positions of the hyphens of t that stand directly before a line break
BrokenHyphens(t) == {i \in 1..(Len(t) - 1) : t[i] = "-" /\ t[i + 1] = NL}

HyphenCount(t) == Cardinality({i \in 1..Len(t) : t[i] = "-"})

\* first positions of the whitespace runs of t that have text on both sides
InteriorRuns(t) ==
    {i \in 2..Len(t) :
        /\ t[i] \in Whitespace
        /\ t[i - 1] \notin Whitespace
        /\ \E h \in (i + 1)..Len(t) : t[h] \notin Whitespace}

SpaceCount(t) == Cardinality({i \in 1..Len(t) : t[i] = " "})

IntroBody == <<"I", "n", "t", "r", "o", " ", "B", "o", "d", "y">>

Communication == <<"c", "o", "m", "m", "u", "n", "i", "c", "a", "t", "i", "o", "n">>

----------------------------------------------------------------------------
(* Properties of the cleaner *)

\* C4: clean_text is idempotent: a call fed the result of the previous call
\* returns that same text.  (Stated as in the documentation; the code does
\* not satisfy it.)
C4_Idempotent ==
    \A i \in 1..(Len(calls) - 1) :
        calls[i + 1].arg = calls[i].res => calls[i + 1].res = calls[i].res

C9_HyphenationRepair ==
    /\ cpc = "return" /\ cin # <<>> =>
          /\ \A i \in 1..Len(cout) : cout[i] \in Whitespace => cout[i] = " "
          /\ NonWs(cout) = NonWs(Without(art, BrokenHyphens(art)))
          /\ SpaceCount(cout) =
                Cardinality({i \in InteriorRuns(art) : (i - 1) \notin BrokenHyphens(art)})
    /\ cpc = "return" /\ cin = ExHyphen => cout = Communication

C9_Witness ==
    /\ cpc = "return"
    /\ BrokenHyphens(art) # {}
    /\ \E i \in BrokenHyphens(art) : i + 2 <= Len(art) /\ art[i + 2] \in Whitespace
    /\ HyphenCount(cout) < HyphenCount(art)

\* C9 (as first stated): no hyphen that stood directly before a line break
\* of the raw text is left in the result.
C9_Original ==
    cpc = "return" /\ cin # <<>> =>
        /\ \A i \in 1..Len(cout) : cout[i] # NL
        /\ HyphenCount(cout) = HyphenCount(cin) - Cardinality(BrokenHyphens(cin))

----------------------------------------------------------------------------
(* Vocabulary of the properties of the parser, stated on the file rather   *)
(* than through the steps of parse.                                         *)

\* the name ends in ".pdf", in any case, after a non-empty stem
HasPdfExtension(name) ==
    /\ Len(name) > 4
    /\ lower(SubSeq(name, Len(name) - 3, Len(name))) = DotPdf

\* 0-based indexes of the pages whose text cannot be read
FaultyPages(bytes) == {i \in 0..(PageCount(bytes) - 1) : bytes[i + 2] = 0}

\* 0-based indexes of the pages that come before the first faulty page
PagesBeforeFault(bytes) ==
    {i \in 0..(PageCount(bytes) - 1) : \A h \in FaultyPages(bytes) : i < h}

\* the pages among those whose cleaned text is not empty
NonEmptyPages(bytes, among) ==
    {i \in among : clean_text(get_text(bytes, i)) # <<>>}

\* the extraction of the file cannot run to its end
Fails(f) ==
    \/ ~f.exists
    \/ ~HasPdfExtension(f.name)
    \/ ~f.readable
    \/ ~Openable(f.bytes)
    \/ FaultyPages(f.bytes) # {}

Identity(docs) == [k \in 1..Len(docs) |-> <<docs[k].file_hash, docs[k].id>>]

Stopped == mpc = "finished"

----------------------------------------------------------------------------
(* Properties of PDFParser.parse, for any consumer (specification Spec) *)

\* C1: once the consumer is done with the sequence (it pulled it all, it
\* stopped part-way, or a page fault ended it), no handle opened by the
\* extraction is open.  (Stated as in the documentation; the code does not
\* satisfy it.)
C1_HandleReleased == Stopped => handles = {}

\* C2 (as first stated): a path that does not exist fails with
\* FileNotFoundError and a path whose extension is not ".pdf" fails with
\* ValueError, both before any handle is opened and with no Document.
C2_Original ==
    Stopped /\ gpc # "closed" =>
        /\ ~file.exists =>
              error = FileNotFound /\ io = <<>> /\ emitted = <<>>
        /\ ~HasPdfExtension(file.name) =>
              error = NotAPdf /\ io = <<>> /\ emitted = <<>>

\* C2 (as amended): a path that does not exist fails with FileNotFoundError,
\* and an existing path whose extension is not ".pdf" (case-insensitively)
\* fails with ValueError; both before any handle is opened and with no
\* Document; an existing path with the extension fails with neither.
C2_EarlyFailure ==
    Stopped /\ gpc # "closed" =>
        /\ ~file.exists =>
              error = FileNotFound /\ io = <<>> /\ emitted = <<>>
        /\ file.exists /\ ~HasPdfExtension(file.name) =>
              error = NotAPdf /\ io = <<>> /\ emitted = <<>>
        /\ file.exists /\ HasPdfExtension(file.name) =>
              error \notin {FileNotFound, NotAPdf}

C2_Witness ==
    /\ Stopped
    /\ file.exists
    /\ ~HasPdfExtension(file.name)
    /\ file.readable /\ Openable(file.bytes)
    /\ error = NotAPdf
    /\ io = <<>>

\* C3: a Document is emitted for the page with 0-based index i exactly when
\* the cleaned text of page i is not empty; it has page_number i + 1 and
\* that non-empty text as content; empty pages shift no later page number.
C3_EmptyPageElision ==
    /\ \A i \in 0..(pos - 1) :
          (\E k \in 1..Len(emitted) : emitted[k].page_number = i + 1)
             <=> clean_text(get_text(file.bytes, i)) # <<>>
    /\ \A k \in 1..Len(emitted) :
          /\ emitted[k].page_number \in 1..pos
          /\ emitted[k].content # <<>>
          /\ emitted[k].content =
                clean_text(get_text(file.bytes, emitted[k].page_number - 1))
    /\ gpc = "returned" => pos = PageCount(file.bytes)

C3_Witness ==
    /\ gpc = "returned"
    /\ Len(emitted) = 2
    /\ emitted[1].page_number = 1
    /\ emitted[2].page_number = 3
    /\ clean_text(get_text(file.bytes, 1)) = <<>>

\* C6: the Documents of one file come in physical page order: page_number
\* is 1-based and strictly increasing along the emitted sequence.
C6_PageOrder ==
    /\ \A k \in 1..Len(emitted) :
          emitted[k].page_number >= 1 /\ emitted[k].page_number <= PageCount(file.bytes)
    /\ \A k, l \in 1..Len(emitted) :
          k < l => emitted[k].page_number < emitted[l].page_number

C6_Witness ==
    /\ Len(emitted) = 3
    /\ emitted[1].page_number = 1
    /\ emitted[3].page_number = 3

\* C7: when the document cannot be opened, parse fails with the ValueError
\* that carries the cause, after a single attempt to open it, with no
\* Document emitted and no file or document handle left open.
C7_CorruptDocument ==
    /\ file.exists /\ HasPdfExtension(file.name) /\ file.readable
    /\ ~Openable(file.bytes)
    /\ gpc = "raised"
    => /\ error.type = "ValueError"
       /\ error.msg = "Failed to open PDF"
       /\ error.cause = "FileDataError"
       /\ emitted = <<>>
       /\ handles = {}
       /\ io = <<"open_file", "close_file", "open_doc_failed">>

C7_Witness ==
    /\ Stopped
    /\ gpc = "raised"
    /\ ~Openable(file.bytes)
    /\ Len(file.bytes) > 1
    /\ error.cause = "FileDataError"

----------------------------------------------------------------------------
(* Properties of main (specifications MainSpec and MainLiveSpec) *)

\* C5: two full extractions of files with the same bytes, under different
\* names, yield the same file_hash and id values in the same order, one per
\* non-empty page, with id the digest of file_hash, "_" and the decimal
\* 0-based page index.
C5_IdentityStability ==
    /\ \A i, j \in 1..Len(results) :
          /\ pdf_files[i].bytes = pdf_files[j].bytes
          /\ results[i].error = NoError
          /\ results[j].error = NoError
          => Identity(results[i].docs) = Identity(results[j].docs)
    /\ \A i \in 1..Len(results) :
          results[i].error = NoError =>
             LET b == pdf_files[i].bytes
                 docs == results[i].docs
             IN  /\ Len(docs) = Cardinality(NonEmptyPages(b, 0..(PageCount(b) - 1)))
                 /\ \A k \in 1..Len(docs) :
                       /\ docs[k].file_hash = _calculate_file_hash(b)
                       /\ docs[k].id =
                             hexdigest(sha256_update(sha256_new,
                                encode(docs[k].file_hash \o <<"_">>
                                       \o decimal(docs[k].page_number - 1))))

C5_Witness ==
    /\ Len(results) = 2
    /\ pdf_files[1].bytes = pdf_files[2].bytes
    /\ pdf_files[1].name # pdf_files[2].name
    /\ results[1].error = NoError
    /\ Len(results[1].docs) = 2
    /\ Identity(results[1].docs) = Identity(results[2].docs)
    /\ results[1].docs # results[2].docs

C10_PerFile ==
    /\ Len(results) <= Len(pdf_files)
    /\ \A k \in 1..Len(results) :
          LET f == pdf_files[k]
              r == results[k]
          IN  /\ r.file = k
              /\ r.error # NoError <=> Fails(f)
              /\ \A d \in 1..Len(r.docs) :
                    (r.docs[d].page_number - 1) \in PagesBeforeFault(f.bytes)
    /\ gpc = "raised" =>
          /\ error # NoError
          /\ \A d \in 1..Len(emitted) :
                (emitted[d].page_number - 1) \in PagesBeforeFault(file.bytes)
    /\ mpc = "done" => Len(results) = Len(pdf_files)

\* C10: an extraction that raises emits nothing more for its file and its
\* error reaches main, which catches it per file: every file of the list is
\* attempted once, in list order, whatever happened to the files before it,
\* and main terminates.
C10_FailFastSkipContinue == [](C10_PerFile) /\ <>(mpc = "done")

C10_Witness ==
    /\ mpc = "done"
    /\ Len(results) = 2
    /\ results[1].error = PageFault
    /\ Len(results[1].docs) = 1
    /\ results[2].error = NoError
    /\ results[2].docs # <<>>

====
